---- MODULE Spec2Model ----
(***************************************************************************)
(* SerWave: the serial I/O actor of serwave-core (serial_service.rs), its  *)
(* handle, and the consumer side of serwave-app (main.rs): the line framer *)
(* of the event polling timer and the LogStore it feeds (logbuf.rs).       *)
(*                                                                         *)
(* Spec     the actor thread spawned by SerialService::open, interleaved   *)
(*          with the calls a holder of the handle makes.                   *)
(* LiveSpec Spec with weak fairness of the actor thread.                   *)
(* AppSpec  the callbacks of the application (connect, disconnect, timer). *)
(***************************************************************************)
EXTENDS Integers, Sequences, FiniteSets, TLC

(***************************************************************************)
(* Bounds of the model.                                                    *)
(***************************************************************************)
\* handle calls made during one run of the actor
MaxCalls == 2
\* device reads that return data during one run of the actor
MaxReads == 2
\* length of the actor's read buffer (the code's is 4096 bytes long)
BufLen == 3
\* events the application's timer handles during one run
MaxEvents == 2
\* events the application's timer dequeues in one tick
MaxBatch == 2
\* clicks on connect and disconnect during one run
MaxClicks == 2
\* clicks of any kind during one run, those on send and on a preset included
MaxSendClicks == 4
\* capacity of the LogStore taken on its own
MaxCap == 2
\* pushes to that LogStore since it was last cleared
MaxPushes == 3
\* entries of the stores whose rendering is examined entry by entry
MaxStored == 1
\* length of the byte sequences handed to the decoder
MaxBytes == 3

VARIABLES
    \* ---- actor and handle (serial_service.rs) ----
    port_name,      \* cfg.port_name
    pc,             \* position of the actor thread
    cmdQ,           \* command channel (tx_cmd -> rx_cmd)
    evtQ,           \* event channel (tx_evt -> rx_evt), not yet received
    handleAlive,    \* the SerialService value (tx_cmd, rx_evt) still exists
    buf,            \* the actor's read buffer
    lastCall,       \* the latest handle call and what it returned
    emitted,        \* history: every event handed to tx_evt.send, in order
    openResult,     \* history: "pending", then "ok" or "failed" (the device open)
    devRead,        \* history: bytes returned by the successful device reads
    acted,          \* history: commands taken off the channel and acted on
    answers,        \* history: what the device answered when each of them was acted on
    ioFailures,     \* history: writes and DTR/RTS sets that failed
    pinReads,       \* history: the device's answers to the line reads of each GetPinStates
    nCalls,         \* history: handle calls made
    sendAttempts,   \* history: tx_cmd.send invocations
    enqueued,       \* history: the commands the channel accepted, in order
    nReads,         \* history: successful device reads
    \* ---- application (main.rs) and LogStore (logbuf.rs) ----
    serial_service, \* Option<SerialService>: TRUE for Some
    app,            \* what the timer's closure works on: rx_buffer, last_rx_time
                    \* (-1 for None, else ms), log_store, the window's is_connected
                    \* and pin indicators, and the history of the framer:
                    \*   fed      the Rx chunks handled since the buffer was last reset
                    \*   flushed  the Rx entries pushed to the log since then
                    \*   nEvents  events handled
                    \*   sent     the data handed to SerialService::send, call by call
                    \*   epoch    connects since the buffer was last reset
                    \*   opens    calls of SerialService::open since then
                    \*   device   whether the device of the latest of them can be
                    \*            opened ("-" before the first)
                    \*   handled  for each of the chunks in fed: the epoch and the
                    \*            time t of its handling, what was left after the
                    \*            terminated lines were taken (rest), the entries
                    \*            pushed (out) and the buffer afterwards (after)
    now,            \* the latest reading of the clock, in ms
    nClicks,        \* history: clicks on connect, disconnect, send and a preset
    \* ---- a LogStore and a decoder on their own (logbuf.rs, encoding.rs) ----
    store,          \* a LogStore
    pushes,         \* history: the entries pushed to store since it was last cleared
    rendered,       \* the latest call on store, when it was a render: its arguments
                    \* and what it returned
    dec             \* a call of TextEncoding::decode: its arguments and what it returned

actorVars == <<port_name, pc, cmdQ, evtQ, handleAlive, buf, lastCall, emitted,
               openResult, devRead, acted, answers, ioFailures, pinReads, nCalls,
               sendAttempts, enqueued, nReads>>
appVars == <<serial_service, app, now, nClicks>>
libVars == <<store, pushes, rendered, dec>>
vars == <<actorVars, appVars, libVars>>

(***************************************************************************)
(* Byte sequences.                                                         *)
(***************************************************************************)
RECURSIVE Concat(_)
Concat(ss) == IF ss = <<>> THEN <<>> ELSE Head(ss) \o Concat(Tail(ss))

Count(s, x) == Cardinality({i \in 1..Len(s) : s[i] = x})

(***************************************************************************)
(* SerialEvent and Command (serial_service.rs).  Every value carries all   *)
(* fields; the ones its variant does not have hold a fixed filler.         *)
(***************************************************************************)
NoPins == [cts |-> FALSE, dsr |-> FALSE, dcd |-> FALSE, ri |-> FALSE]

Rx(d) == [ev |-> "Rx", data |-> d, n |-> 0, msg |-> "", pins |-> NoPins]
Tx(k) == [ev |-> "Tx", data |-> <<>>, n |-> k, msg |-> "", pins |-> NoPins]
Opened(name) == [ev |-> "Opened", data |-> <<>>, n |-> 0, msg |-> name, pins |-> NoPins]
Closed == [ev |-> "Closed", data |-> <<>>, n |-> 0, msg |-> "", pins |-> NoPins]
Error(m) == [ev |-> "Error", data |-> <<>>, n |-> 0, msg |-> m, pins |-> NoPins]
PinStates(p) == [ev |-> "PinStates", data |-> <<>>, n |-> 0, msg |-> "", pins |-> p]

Send(d) == [op |-> "Send", data |-> d, state |-> FALSE]
SetDtr(b) == [op |-> "SetDtr", data |-> <<>>, state |-> b]
SetRts(b) == [op |-> "SetRts", data |-> <<>>, state |-> b]
GetPinStates == [op |-> "GetPinStates", data |-> <<>>, state |-> FALSE]
Close == [op |-> "Close", data |-> <<>>, state |-> FALSE]

\* the inputs the model draws from
PortNames == {"/dev/ttyUSB0"}
SendData == {<<65, 10>>}
ReadData == {<<1>>, <<2, 10>>}
\* what the device answers to the four modem line reads: "hi", "lo" or "err"
PinReads == { [cts |-> "hi", dsr |-> "lo", dcd |-> "hi", ri |-> "lo"],
              [cts |-> "err", dsr |-> "hi", dcd |-> "err", ri |-> "lo"] }
\* e.to_string() of an I/O error
IoErrors == {"io error"}

(***************************************************************************)
(* The channels (crossbeam unbounded).                                     *)
(***************************************************************************)
\* rx_cmd lives until the thread's closure returns
RxCmdAlive == pc # "done"

\* Sender::send: Ok when the receiver exists, else Err
ChannelSend(receiverAlive) == IF receiverAlive THEN "Ok" ELSE "Err"

\* let _ = tx_evt.send(e): the event is queued when rx_evt exists, the result dropped
Emit(es) ==
    /\ emitted' = emitted \o es
    /\ evtQ' = IF ChannelSend(handleAlive) = "Ok" THEN evtQ \o es ELSE evtQ

NoEmit == UNCHANGED <<emitted, evtQ>>

(***************************************************************************)
(* The actor thread: the closure of SerialService::open.                   *)
(*   pc = "spawned"      before serialport::...open()                      *)
(*        "read"         at port.read, the top of the loop                 *)
(*        "drain"        in the while-let over rx_cmd.try_recv()           *)
(*        "sleep"        in thread::sleep                                  *)
(*        "open_failed"  between the two sends of the Err arm              *)
(*        "exiting"      after the send of Closed, before the closure ends *)
(*        "done"         the closure has returned, rx_cmd and tx_evt gone  *)
(***************************************************************************)
actorHist == <<devRead, acted, answers, ioFailures, pinReads, nReads>>
loopHist == <<openResult, actorHist>>
handleHist == <<lastCall, nCalls, sendAttempts, enqueued>>

\* faulty variant: the thread enters the loop without announcing the open
OpenOk_Silent ==
    /\ pc = "spawned"
    /\ NoEmit
    /\ pc' = "read"
    /\ openResult' = "ok"
    /\ UNCHANGED <<port_name, cmdQ, handleAlive, buf, devRead, acted, answers, ioFailures, pinReads,
                   nReads, handleHist, appVars, libVars>>

OpenOk ==
    /\ pc = "spawned"
    /\ Emit(<<Opened(port_name)>>)
    /\ pc' = "read"
    /\ openResult' = "ok"
    /\ UNCHANGED <<port_name, cmdQ, handleAlive, buf, actorHist, handleHist, appVars, libVars>>

OpenErr ==
    /\ pc = "spawned"
    /\ Emit(<<Error("open failed: no such device")>>)
    /\ pc' = "open_failed"
    /\ openResult' = "failed"
    /\ UNCHANGED <<port_name, cmdQ, handleAlive, buf, actorHist, handleHist, appVars, libVars>>

\* faulty variant: the Err arm forgets the Closed event
OpenErrClosed_NoEvent ==
    /\ pc = "open_failed"
    /\ NoEmit
    /\ pc' = "exiting"
    /\ UNCHANGED <<port_name, cmdQ, handleAlive, buf, openResult, devRead, acted, answers, ioFailures,
                   pinReads, nReads, handleHist, appVars, libVars>>

OpenErrClosed ==
    /\ pc = "open_failed"
    /\ Emit(<<Closed>>)
    /\ pc' = "exiting"
    /\ UNCHANGED <<port_name, cmdQ, handleAlive, buf, loopHist, handleHist, appVars, libVars>>

\* the closure returns: rx_cmd is dropped with whatever is still queued
ThreadExit ==
    /\ pc = "exiting"
    /\ pc' = "done"
    /\ cmdQ' = <<>>
    /\ UNCHANGED <<port_name, evtQ, emitted, handleAlive, buf, loopHist, handleHist, appVars, libVars>>

\* port.read(&mut buf): Ok(n) with the n bytes stored at the front of buf, or Err
ReadResults == [ok : {TRUE}, data : ReadData \cup {<<>>}] \cup [ok : {FALSE}, data : {<<>>}]

\* faulty variant: Ok(n) without the guard: a read of no bytes is reported too
ReadEmits_AnyOk(r) == r.ok

\* Ok(n) if n > 0
ReadEmits(r) == r.ok /\ Len(r.data) > 0

\* faulty variant: the whole buffer is sent, stale bytes included
RxPayload_WholeBuffer(b, n) == b

\* buf[..n].to_vec()
RxPayload(b, n) == SubSeq(b, 1, n)

ReadStep ==
    /\ pc = "read"
    /\ \E r \in ReadResults :
         LET n == Len(r.data)
             b == IF r.ok THEN r.data \o SubSeq(buf, n + 1, Len(buf)) ELSE buf
         IN /\ n <= Len(buf)
            /\ (r.ok /\ n > 0) => nReads < MaxReads
            /\ buf' = b
            /\ devRead' = IF r.ok THEN devRead \o r.data ELSE devRead
            /\ nReads' = IF r.ok /\ n > 0 THEN nReads + 1 ELSE nReads
            /\ IF ReadEmits(r) THEN Emit(<<Rx(RxPayload(b, n))>>) ELSE NoEmit
    /\ pc' = "drain"
    /\ UNCHANGED <<port_name, cmdQ, handleAlive, openResult, acted, answers, ioFailures, pinReads, handleHist,
                   appVars, libVars>>

\* what a device call answered: a write (ok, n or e), a DTR/RTS set (ok or e),
\* the four line reads of a pin-state query (pins); Close calls nothing
NoPinRead == [cts |-> "-", dsr |-> "-", dcd |-> "-", ri |-> "-"]
Answer(w) == [ok |-> w.ok, n |-> w.n, e |-> w.e, pins |-> NoPinRead]
SetAnswer(w) == [ok |-> w.ok, n |-> 0, e |-> w.e, pins |-> NoPinRead]
PinAnswer(p) == [ok |-> TRUE, n |-> 0, e |-> "", pins |-> p]
NoAnswer == [ok |-> TRUE, n |-> 0, e |-> "", pins |-> NoPinRead]

\* the command try_recv hands out: the oldest one queued
NextCmd == Head(cmdQ)

\* faulty variant: the channel hands out the newest command first
Recv_Lifo(op) ==
    /\ pc = "drain"
    /\ cmdQ # <<>>
    /\ cmdQ[Len(cmdQ)].op = op
    /\ cmdQ' = SubSeq(cmdQ, 1, Len(cmdQ) - 1)
    /\ acted' = Append(acted, cmdQ[Len(cmdQ)])

\* rx_cmd.try_recv() returned Ok(cmd)
Recv(op) ==
    /\ pc = "drain"
    /\ cmdQ # <<>>
    /\ NextCmd.op = op
    /\ cmdQ' = Tail(cmdQ)
    /\ acted' = Append(acted, NextCmd)

\* port.write(&data): Ok(n) for some n <= len (a partial write included), or Err(e)
WriteResults(d) == [ok : {TRUE}, n : 1..Len(d), e : {""}] \cup [ok : {FALSE}, n : {0}, e : IoErrors]

\* faulty variant: write_all for write: Tx reports the whole length whatever the
\* one write call reported
SendEvent_WholeLength(w, data) == IF w.ok THEN Tx(Len(data)) ELSE Error(w.e)

\* Ok(n) => Tx(n), Err(e) => Error(e.to_string())
SendEvent(w, data) == IF w.ok THEN Tx(w.n) ELSE Error(w.e)

ActSend ==
    /\ Recv("Send")
    /\ \E w \in WriteResults(NextCmd.data) :
         /\ Emit(<<SendEvent(w, NextCmd.data)>>)
         /\ ioFailures' = IF w.ok THEN ioFailures ELSE ioFailures + 1
         /\ answers' = Append(answers, Answer(w))
    /\ UNCHANGED <<port_name, pc, handleAlive, buf, openResult, devRead, pinReads, nReads, handleHist,
                   appVars, libVars>>

\* write_data_terminal_ready / write_request_to_send: Ok(()) or Err(e)
SetResults == [ok : {TRUE}, e : {""}] \cup [ok : {FALSE}, e : IoErrors]

\* faulty variant: let _ = port.write_...(state): the failure of a set is dropped
ActSetLine_Silent(op) ==
    /\ Recv(op)
    /\ \E w \in SetResults :
         /\ NoEmit
         /\ ioFailures' = IF w.ok THEN ioFailures ELSE ioFailures + 1
         /\ answers' = Append(answers, SetAnswer(w))
    /\ UNCHANGED <<port_name, pc, handleAlive, buf, openResult, devRead, pinReads, nReads,
                   handleHist, appVars, libVars>>

ActSetLine(op) ==
    /\ Recv(op)
    /\ \E w \in SetResults :
         /\ IF w.ok THEN NoEmit ELSE Emit(<<Error(w.e)>>)
         /\ ioFailures' = IF w.ok THEN ioFailures ELSE ioFailures + 1
         /\ answers' = Append(answers, SetAnswer(w))
    /\ UNCHANGED <<port_name, pc, handleAlive, buf, openResult, devRead, pinReads, nReads, handleHist,
                   appVars, libVars>>

ActSetDtr == ActSetLine("SetDtr")

ActSetRts == ActSetLine("SetRts")

\* port.read_...().unwrap_or(false)
UnwrapOrFalse(r) == r = "hi"

ActGetPinStates ==
    /\ Recv("GetPinStates")
    /\ \E p \in PinReads :
         /\ Emit(<<PinStates([cts |-> UnwrapOrFalse(p.cts), dsr |-> UnwrapOrFalse(p.dsr),
                              dcd |-> UnwrapOrFalse(p.dcd), ri |-> UnwrapOrFalse(p.ri)])>>)
         /\ pinReads' = Append(pinReads, p)
         /\ answers' = Append(answers, PinAnswer(p))
    /\ UNCHANGED <<port_name, pc, handleAlive, buf, openResult, devRead, ioFailures, nReads,
                   handleHist, appVars, libVars>>

\* faulty variant: Close is answered by Closed but the loop goes on
ActClose_NoReturn ==
    /\ pc = "drain"
    /\ cmdQ # <<>>
    /\ Head(cmdQ).op = "Close"
    /\ cmdQ' = Tail(cmdQ)
    /\ acted' = Append(acted, Head(cmdQ))
    /\ answers' = Append(answers, NoAnswer)
    /\ Emit(<<Closed>>)
    /\ UNCHANGED <<port_name, pc, handleAlive, buf, openResult, devRead, ioFailures, pinReads,
                   nReads, handleHist, appVars, libVars>>

ActClose ==
    /\ Recv("Close")
    /\ answers' = Append(answers, NoAnswer)
    /\ Emit(<<Closed>>)
    /\ pc' = "exiting"
    /\ UNCHANGED <<port_name, handleAlive, buf, openResult, devRead, ioFailures, pinReads, nReads,
                   handleHist, appVars, libVars>>

\* faulty variant: one pass of the loop takes at most what it happens to take (if-let
\* for while-let): the drain may end with commands still queued
DrainEnds_Early == TRUE

\* try_recv() returned Err (Empty, or Disconnected once the handle is gone):
\* the while-let ends
DrainEnds == cmdQ = <<>>

\* faulty variant: a disconnected command channel ends the thread
DrainDone_StopOnDisconnect ==
    /\ pc = "drain"
    /\ cmdQ = <<>>
    /\ pc' = IF handleAlive THEN "sleep" ELSE "exiting"
    /\ UNCHANGED <<port_name, cmdQ, evtQ, emitted, handleAlive, buf, openResult, devRead,
                   acted, answers, ioFailures, pinReads, nReads, handleHist,
                   appVars, libVars>>

DrainDone ==
    /\ pc = "drain"
    /\ DrainEnds
    /\ pc' = "sleep"
    /\ UNCHANGED <<port_name, cmdQ, evtQ, emitted, handleAlive, buf, loopHist, handleHist, appVars, libVars>>

Sleep ==
    /\ pc = "sleep"
    /\ pc' = "read"
    /\ UNCHANGED <<port_name, cmdQ, evtQ, emitted, handleAlive, buf, loopHist, handleHist, appVars, libVars>>

ActorNext ==
    \/ OpenOk \/ OpenErr \/ OpenErrClosed \/ ThreadExit
    \/ ReadStep
    \/ ActSend \/ ActSetDtr \/ ActSetRts \/ ActGetPinStates \/ ActClose
    \/ DrainDone \/ Sleep

(***************************************************************************)
(* The handle: SerialService::send, set_dtr, set_rts, request_pin_states,  *)
(* close, and the drop of the value.  The events are received by the       *)
(* application's timer (TimerTick).                                        *)
(***************************************************************************)
\* self.tx_cmd.send(cmd), once; `result` maps the channel's answer to the return value
Enqueue(cmd, name, result) ==
    /\ handleAlive
    /\ nCalls < MaxCalls
    /\ LET r == ChannelSend(RxCmdAlive)
       IN /\ cmdQ' = IF r = "Ok" THEN Append(cmdQ, cmd) ELSE cmdQ
          /\ enqueued' = IF r = "Ok" THEN Append(enqueued, cmd) ELSE enqueued
          /\ lastCall' = [op |-> name, result |-> result[r], tornDown |-> ~RxCmdAlive]
    /\ nCalls' = nCalls + 1
    /\ sendAttempts' = sendAttempts + 1
    /\ UNCHANGED <<port_name, pc, evtQ, emitted, handleAlive, buf, loopHist, appVars, libVars>>

\* faulty variant: the error of the channel is swallowed
MapErr_Swallow == [Ok |-> "Ok", Err |-> "Ok"]

\* .map_err(|e| e.to_string())
MapErr == [Ok |-> "Ok", Err |-> "Err"]

\* let _ = ...; the function returns ()
Discard == [Ok |-> "Unit", Err |-> "Unit"]

send(data) == Enqueue(Send(data), "send", MapErr)

set_dtr(state) == Enqueue(SetDtr(state), "set_dtr", MapErr)

set_rts(state) == Enqueue(SetRts(state), "set_rts", MapErr)

request_pin_states == Enqueue(GetPinStates, "request_pin_states", MapErr)

close == Enqueue(Close, "close", Discard)

\* the SerialService value is dropped: tx_cmd and rx_evt go, with the queued events
DropHandle ==
    /\ handleAlive
    /\ handleAlive' = FALSE
    /\ evtQ' = <<>>
    /\ UNCHANGED <<port_name, pc, cmdQ, emitted, buf, loopHist, handleHist, appVars, libVars>>

HandleNext ==
    \/ \E d \in SendData : send(d)
    \/ \E b \in BOOLEAN : set_dtr(b)
    \/ \E b \in BOOLEAN : set_rts(b)
    \/ request_pin_states
    \/ close
    \/ DropHandle

ActorInit ==
    /\ port_name \in PortNames
    /\ pc = "spawned"
    /\ cmdQ = <<>>
    /\ evtQ = <<>>
    /\ handleAlive = TRUE
    /\ buf = [i \in 1..BufLen |-> 0]
    /\ lastCall = [op |-> "none", result |-> "none", tornDown |-> FALSE]
    /\ emitted = <<>>
    /\ openResult = "pending"
    /\ devRead = <<>>
    /\ acted = <<>>
    /\ answers = <<>>
    /\ ioFailures = 0
    /\ pinReads = <<>>
    /\ nCalls = 0
    /\ sendAttempts = 0
    /\ enqueued = <<>>
    /\ nReads = 0

(***************************************************************************)
(* TextEncoding (encoding.rs).  A String is the sequence of its code       *)
(* points.  The codecs are those of encoding_rs (the WHATWG decoders);     *)
(* a character taken from the index tables of the double-byte codec is     *)
(* written as its table position past the last code point, the blank       *)
(* U+3000 excepted.                                                        *)
(***************************************************************************)
TextEncoding == {"Auto", "Utf8", "Utf16", "Ascii", "Gbk", "Gb2312"}

\* U+FFFD, what a malformed sequence decodes to
Replacement == <<65533>>

\* the WHATWG UTF-8 decoder over b from index i: `need` continuation bytes are
\* awaited for the code point begun as cp, the next one within lo..hi;
\* valid is FALSE when a malformed sequence was met (std::str::from_utf8 is Err)
RECURSIVE Utf8Scan(_, _, _, _, _, _)
Utf8Scan(b, i, need, cp, lo, hi) ==
    IF i > Len(b)
    THEN [text |-> IF need > 0 THEN Replacement ELSE <<>>, valid |-> need = 0]
    ELSE LET x == b[i]
             go(k, c, l, h) == Utf8Scan(b, i + 1, k, c, l, h)
             put(c, r) == [text |-> c \o r.text, valid |-> r.valid]
             bad(r) == [text |-> Replacement \o r.text, valid |-> FALSE]
         IN IF need = 0
            THEN CASE x <= 127 -> put(<<x>>, go(0, 0, 128, 191))
                   [] x \in 194..223 -> go(1, x - 192, 128, 191)
                   [] x = 224 -> go(2, 0, 160, 191)
                   [] x \in 225..236 \cup {238, 239} -> go(2, x - 224, 128, 191)
                   [] x = 237 -> go(2, 13, 128, 159)
                   [] x = 240 -> go(3, 0, 144, 191)
                   [] x \in 241..243 -> go(3, x - 240, 128, 191)
                   [] x = 244 -> go(3, 4, 128, 143)
                   [] OTHER -> bad(go(0, 0, 128, 191))
            ELSE IF x \in lo..hi
                 THEN LET c == cp * 64 + (x - 128)
                      IN IF need = 1 THEN put(<<c>>, go(0, 0, 128, 191))
                         ELSE go(need - 1, c, 128, 191)
                 ELSE bad(Utf8Scan(b, i, 0, 0, 128, 191))

\* std::str::from_utf8(bytes)
from_utf8(b) == LET r == Utf8Scan(b, 1, 0, 0, 128, 191)
                IN [ok |-> r.valid, s |-> r.text]

\* the UTF-16 decoder over b from index i, big-endian or little-endian; lead is
\* the pending high surrogate, 0 for none
RECURSIVE Utf16Scan(_, _, _, _)
Utf16Scan(b, i, be, lead) ==
    IF i > Len(b) THEN (IF lead # 0 THEN Replacement ELSE <<>>)
    ELSE IF i = Len(b) THEN Replacement
    ELSE LET u == IF be THEN b[i] * 256 + b[i + 1] ELSE b[i] + b[i + 1] * 256
         IN IF lead # 0
            THEN IF u \in 56320..57343
                 THEN <<65536 + (lead - 55296) * 1024 + (u - 56320)>>
                          \o Utf16Scan(b, i + 2, be, 0)
                 ELSE Replacement \o Utf16Scan(b, i, be, 0)
            ELSE IF u \in 55296..56319 THEN Utf16Scan(b, i + 2, be, u)
            ELSE IF u \in 56320..57343 THEN Replacement \o Utf16Scan(b, i + 2, be, 0)
            ELSE <<u>> \o Utf16Scan(b, i + 2, be, 0)

\* the entry of the double-byte index at position p: U+3000 for the bytes A1 A1
GbkIndex(p) == IF p = 6176 THEN <<12288>> ELSE <<1114112 + p>>

\* the entry of the four-byte ranges at position p, none outside the ranges
GbkRanges(p) ==
    IF (p > 39419 /\ p < 189000) \/ p > 1237575 THEN Replacement
    ELSE <<1114112 + 100000 + p>>

\* the gb18030 decoder (which GBK decodes with) over b from index i; first,
\* second and third are the pending bytes of a sequence, 0 for none
RECURSIVE GbkScan(_, _, _, _, _)
GbkScan(b, i, first, second, third) ==
    IF i > Len(b) THEN (IF first # 0 THEN Replacement ELSE <<>>)
    ELSE LET x == b[i]
         IN IF third # 0
            THEN IF x \in 48..57
                 THEN GbkRanges((first - 129) * 12600 + (second - 48) * 1260
                                    + (third - 129) * 10 + (x - 48))
                          \o GbkScan(b, i + 1, 0, 0, 0)
                 ELSE Replacement \o GbkScan(b, i - 2, 0, 0, 0)
            ELSE IF second # 0
            THEN IF x \in 129..254 THEN GbkScan(b, i + 1, first, second, x)
                 ELSE Replacement \o GbkScan(b, i - 1, 0, 0, 0)
            ELSE IF first # 0
            THEN IF x \in 48..57 THEN GbkScan(b, i + 1, first, x, 0)
                 ELSE IF x \in 64..126 \cup 128..254
                 THEN GbkIndex((first - 129) * 190 + (x - (IF x < 127 THEN 64 ELSE 65)))
                          \o GbkScan(b, i + 1, 0, 0, 0)
                 ELSE Replacement \o GbkScan(b, IF x < 128 THEN i ELSE i + 1, 0, 0, 0)
            ELSE CASE x < 128 -> <<x>> \o GbkScan(b, i + 1, 0, 0, 0)
                   [] x = 128 -> <<8364>> \o GbkScan(b, i + 1, 0, 0, 0)
                   [] x = 255 -> Replacement \o GbkScan(b, i + 1, 0, 0, 0)
                   [] OTHER -> GbkScan(b, i + 1, x, 0, 0)

\* windows-1252: the bytes 0x80..0x9F go through the codec's table
Windows1252High ==
    <<8364, 129, 8218, 402, 8222, 8230, 8224, 8225, 710, 8240, 352, 8249, 338, 141, 381, 143,
      144, 8216, 8217, 8220, 8221, 8226, 8211, 8212, 732, 8482, 353, 8250, 339, 157, 382, 376>>

Windows1252(b) ==
    [i \in 1..Len(b) |-> IF b[i] \in 128..159 THEN Windows1252High[b[i] - 127] ELSE b[i]]

\* Encoding::decode(bytes).0 of encoding_rs: a byte order mark at the front
\* selects the codec and is removed; malformed sequences become U+FFFD
EncodingDecode(encoding, b) ==
    LET from(k) == SubSeq(b, k, Len(b))
    IN IF Len(b) >= 3 /\ SubSeq(b, 1, 3) = <<239, 187, 191>>
       THEN Utf8Scan(from(4), 1, 0, 0, 128, 191).text
       ELSE IF Len(b) >= 2 /\ SubSeq(b, 1, 2) = <<255, 254>> THEN Utf16Scan(from(3), 1, FALSE, 0)
       ELSE IF Len(b) >= 2 /\ SubSeq(b, 1, 2) = <<254, 255>> THEN Utf16Scan(from(3), 1, TRUE, 0)
       ELSE CASE encoding = "UTF_8" -> Utf8Scan(b, 1, 0, 0, 128, 191).text
              [] encoding = "UTF_16LE" -> Utf16Scan(b, 1, FALSE, 0)
              [] encoding = "GBK" -> GbkScan(b, 1, 0, 0, 0)
              [] encoding = "windows-1252" -> Windows1252(b)

\* what a call that panics yields: no String
Panic == <<0 - 1>>

\* the codecs chardetng's EncodingDetector::guess answers with in this model
Guesses == {"windows-1252", "GBK"}

\* faulty variant: from_utf8(bytes).unwrap() for the if-let and no detector
detect_and_decode_Unwrap(bytes, guess) ==
    IF bytes = <<>> THEN <<>>
    ELSE IF from_utf8(bytes).ok THEN from_utf8(bytes).s
    ELSE Panic

\* detect_and_decode(bytes), guess being the detector's answer
detect_and_decode(bytes, guess) ==
    IF bytes = <<>> THEN <<>>
    ELSE IF from_utf8(bytes).ok THEN from_utf8(bytes).s
    ELSE EncodingDecode(guess, bytes)

\* TextEncoding::decode(&self, bytes)
decode(self, bytes, guess) ==
    CASE self = "Auto" -> detect_and_decode(bytes, guess)
      [] self = "Utf8" -> EncodingDecode("UTF_8", bytes)
      [] self = "Utf16" -> EncodingDecode("UTF_16LE", bytes)
      [] self = "Ascii" -> [i \in 1..Len(bytes) |-> IF bytes[i] < 128 THEN bytes[i] ELSE 63]
      [] self \in {"Gbk", "Gb2312"} -> EncodingDecode("GBK", bytes)

(***************************************************************************)
(* LogStore (logbuf.rs).                                                   *)
(***************************************************************************)
LogStore_new(max_entries) ==
    [entries |-> <<>>, max_entries |-> max_entries, filter_rx |-> TRUE,
     filter_tx |-> TRUE, highlight_keywords |-> <<>>]

\* faulty variant: the overflowing push removes the newest entry (pop) instead of
\* the oldest
push_EvictNewest(st, direction, data, t) ==
    LET es == Append(st.entries, [timestamp |-> t, direction |-> direction, data |-> data])
    IN [st EXCEPT !.entries = IF Len(es) > st.max_entries THEN SubSeq(es, 1, Len(es) - 1)
                                ELSE es]

\* LogStore::push at wall-clock time t (ms)
push(st, direction, data, t) ==
    LET es == Append(st.entries, [timestamp |-> t, direction |-> direction, data |-> data])
    IN [st EXCEPT !.entries = IF Len(es) > st.max_entries THEN Tail(es) ELSE es]

\* faulty variant: the filter is applied to the stored entries (retain)
set_filter_Retain(self, show_rx, show_tx) ==
    [self EXCEPT !.filter_rx = show_rx, !.filter_tx = show_tx,
                 !.entries = SelectSeq(self.entries,
                                 LAMBDA e : IF e.direction = "Rx" THEN show_rx ELSE show_tx)]

\* LogStore::set_filter
set_filter(self, show_rx, show_tx) == [self EXCEPT !.filter_rx = show_rx, !.filter_tx = show_tx]

\* LogStore::set_highlight_keywords
set_highlight_keywords(self, keywords) == [self EXCEPT !.highlight_keywords = keywords]

\* LogStore::clear
clear(self) == [self EXCEPT !.entries = <<>>]

\* (direction == Rx && !filter_rx) || (direction == Tx && !filter_tx): continue
FilteredOut(self, entry) ==
    \/ entry.direction = "Rx" /\ ~self.filter_rx
    \/ entry.direction = "Tx" /\ ~self.filter_tx

\* "RX: " and "TX: "
Prefix(direction) == IF direction = "Rx" THEN <<82, 88, 58, 32>> ELSE <<84, 88, 58, 32>>

\* a decimal digit and an uppercase hexadecimal digit, as characters
Digit(n) == 48 + n

\* faulty variant: {byte:02x}, the lowercase digits
HexDigit_Lower(n) == IF n < 10 THEN 48 + n ELSE 87 + n

HexDigit(n) == IF n < 10 THEN 48 + n ELSE 55 + n

\* format!("{byte:02X} ")
HexByte(byte) == <<HexDigit(byte \div 16), HexDigit(byte % 16), 32>>

RECURSIVE HexBytes(_)
HexBytes(data) == IF data = <<>> THEN <<>> ELSE HexByte(Head(data)) \o HexBytes(Tail(data))

\* format!("{n:02}") for n < 100 and format!("{n:03}") for n < 1000
Pad2(n) == <<Digit(n \div 10), Digit(n % 10)>>
Pad3(n) == <<Digit(n \div 100), Digit((n \div 10) % 10), Digit(n % 10)>>

\* faulty variant: the clock's reading is rendered, not the entry's timestamp
Timestamp_OfRendering(timestamp, wall, overflow) ==
    IF wall < timestamp
    THEN IF overflow = "panic" THEN Panic ELSE <<>>
    ELSE LET millis == wall % 1000
             local_secs == (wall \div 1000) + 8 * 3600
             hours == (local_secs \div 3600) % 24
             minutes == (local_secs \div 60) % 60
             seconds == local_secs % 60
         IN <<91>> \o Pad2(hours) \o <<58>> \o Pad2(minutes) \o <<58>> \o Pad2(seconds)
                \o <<46>> \o Pad3(millis) \o <<93, 32>>

\* the timestamp of an entry, rendered while the wall clock reads `wall` (ms):
\* local_time = now - (now - timestamp), to the second the stored timestamp
\* whatever the clock's sub-millisecond part.  With the clock earlier than the
\* timestamp the u64 subtraction overflows: it panics, or it wraps and
\* local_time falls before the epoch, duration_since is Err and nothing is written.
Timestamp(timestamp, wall, overflow) ==
    IF wall < timestamp
    THEN IF overflow = "panic" THEN Panic ELSE <<>>
    ELSE LET millis == timestamp % 1000
             local_secs == (timestamp \div 1000) + 8 * 3600
             hours == (local_secs \div 3600) % 24
             minutes == (local_secs \div 60) % 60
             seconds == local_secs % 60
         IN <<91>> \o Pad2(hours) \o <<58>> \o Pad2(minutes) \o <<58>> \o Pad2(seconds)
                \o <<46>> \o Pad3(millis) \o <<93, 32>>

\* char::is_whitespace
is_whitespace(c) ==
    c \in 9..13 \cup {32, 133, 160, 5760} \cup 8192..8202 \cup {8232, 8233, 8239, 8287, 12288}

\* faulty variant: text.is_empty(), without the trim
TrimIsEmpty_NoTrim(text) == text = <<>>

\* text.trim().is_empty()
TrimIsEmpty(text) == \A i \in 1..Len(text) : is_whitespace(text[i])

\* str::replace(from, to), from not empty: the matches from left to right, none
\* overlapping another
RECURSIVE Replace(_, _, _)
Replace(text, from, to) ==
    IF Len(text) < Len(from) THEN text
    ELSE IF SubSeq(text, 1, Len(from)) = from
         THEN to \o Replace(SubSeq(text, Len(from) + 1, Len(text)), from, to)
         ELSE <<Head(text)>> \o Replace(Tail(text), from, to)

\* faulty variant: the keywords are applied from the last of the list to the first
RECURSIVE Highlight_LastFirst(_, _)
Highlight_LastFirst(text, keywords) ==
    IF keywords = <<>> THEN text
    ELSE LET keyword == keywords[Len(keywords)]
             marked == IF keyword # <<>>
                       THEN Replace(text, keyword, <<12304>> \o keyword \o <<12305>>)
                       ELSE text
         IN Highlight_LastFirst(marked, SubSeq(keywords, 1, Len(keywords) - 1))

\* for keyword in &self.highlight_keywords: text = text.replace(keyword, "【keyword】")
RECURSIVE Highlight(_, _)
Highlight(text, keywords) ==
    IF keywords = <<>> THEN text
    ELSE LET keyword == Head(keywords)
             marked == IF keyword # <<>>
                       THEN Replace(text, keyword, <<12304>> \o keyword \o <<12305>>)
                       ELSE text
         IN Highlight(marked, Tail(keywords))

\* what one pass of the for loop appends to result (Panic when it panics); c
\* holds the arguments of the call and what it reads from outside: the wall
\* clock, the detector's answer, what an overflowing subtraction does
RenderEntry(self, entry, c) ==
    LET stamp == IF c.show_timestamp THEN Timestamp(entry.timestamp, c.wall, c.overflow)
                 ELSE <<>>
        text == decode(c.encoding, entry.data, c.guess)
        marked == Highlight(text, self.highlight_keywords)
    IN IF FilteredOut(self, entry) THEN <<>>
       ELSE IF c.show_hex
            THEN IF stamp = Panic THEN Panic
                 ELSE stamp \o Prefix(entry.direction) \o HexBytes(entry.data) \o <<10>>
            ELSE IF text = Panic THEN Panic
                 ELSE IF TrimIsEmpty(text) THEN <<>>
                 ELSE IF stamp = Panic THEN Panic
                 ELSE stamp \o Prefix(entry.direction) \o marked
                          \o (IF marked[Len(marked)] # 10 THEN <<10>> ELSE <<>>)

RECURSIVE RenderFrom(_, _, _)
RenderFrom(self, i, c) ==
    IF i > Len(self.entries) THEN <<>>
    ELSE LET one == RenderEntry(self, self.entries[i], c)
             more == RenderFrom(self, i + 1, c)
         IN IF one = Panic \/ more = Panic THEN Panic ELSE one \o more

\* LogStore::to_text_with_encoding
to_text_with_encoding(self, c) == RenderFrom(self, 1, c)

\* LogStore::to_text
to_text(self, c) == to_text_with_encoding(self, [c EXCEPT !.encoding = "Auto"])

(***************************************************************************)
(* The application (main.rs).                                              *)
(***************************************************************************)
\* LogStore::new(10000)
LOG_CAPACITY == 10000
\* now.duration_since(last).as_millis() > 100
STALE_MS == 100
\* buf.len() > 1024
FLUSH_LEN == 1024
NEWLINE == 10

\* UTF-8 of the messages the callbacks log
MSG_CONNECTED == <<229, 183, 178, 232, 191, 158, 230, 142, 165, 229, 136, 176, 32>>
MSG_DISCONNECTED == <<229, 183, 178, 230, 150, 173, 229, 188, 128, 232, 191, 158, 230, 142, 165>>
MSG_ERROR == <<233, 148, 153, 232, 175, 175, 58, 32>>
MSG_CONNECT_FAILED == <<232, 191, 158, 230, 142, 165, 229, 164, 177, 232, 180, 165, 58, 32>>

\* the Rx chunks the model feeds: no terminator, a lone terminator, two terminated
\* lines with a remainder, and FLUSH_LEN bytes without a terminator
Fill == [i \in 1..FLUSH_LEN |-> 120]
Chunks == {<<97>>, <<NEWLINE>>, <<98, NEWLINE, 99, NEWLINE, 100>>, Fill}
\* e.to_string() as bytes, for the Error events the timer handles
ErrorTexts == {<<105, 111>>}
\* the events the timer can find in service.events()
AppEvent(kind, data, pins) == [ev |-> kind, data |-> data, pins |-> pins]
EventSamples ==
    {AppEvent("Rx", c, NoPins) : c \in Chunks}
    \cup {AppEvent("Error", m, NoPins) : m \in ErrorTexts}
    \cup {AppEvent("Closed", <<>>, NoPins), AppEvent("Opened", <<>>, NoPins)}
    \cup {AppEvent("PinStates", <<>>, [cts |-> TRUE, dsr |-> FALSE, dcd |-> TRUE, ri |-> FALSE])}
Batches == UNION {[1..k -> EventSamples] : k \in 1..MaxBatch}
\* time between the clock readings of two timer ticks, in ms (the events of one
\* tick are handled at one reading, and a click is stamped with the latest one)
Gaps == {STALE_MS, STALE_MS + 1}
\* app.get_selected_port(): empty, or "COM3 (1A86:7523)"
PortDisplays == {<<>>, <<67, 79, 77, 51, 32, 40, 49, 65, 56, 54, 58, 55, 53, 50, 51, 41>>}

\* buf.iter().position(|&b| b == b'\n'): the first index holding x, 0 for None
Position(b, x) ==
    LET at == {i \in 1..Len(b) : b[i] = x}
    IN IF at = {} THEN 0 ELSE CHOOSE i \in at : \A j \in at : i <= j

\* faulty variant: buf.drain(..pos) and a skipped terminator: the lines lose their 0x0A
RECURSIVE DrainLines_DropTerminator(_)
DrainLines_DropTerminator(b) ==
    LET pos == Position(b, NEWLINE)
    IN IF pos = 0 THEN [lines |-> <<>>, rest |-> b]
       ELSE LET r == DrainLines_DropTerminator(SubSeq(b, pos + 1, Len(b)))
            IN [lines |-> <<SubSeq(b, 1, pos - 1)>> \o r.lines, rest |-> r.rest]

\* faulty variant: if-let for while-let: only the first line of a chunk is extracted
DrainLines_FirstOnly(b) ==
    LET pos == Position(b, NEWLINE)
    IN IF pos = 0 THEN [lines |-> <<>>, rest |-> b]
       ELSE [lines |-> <<SubSeq(b, 1, pos)>>, rest |-> SubSeq(b, pos + 1, Len(b))]

\* while let Some(pos) = position: line = buf.drain(..=pos); push; write_entry
RECURSIVE DrainLines(_)
DrainLines(b) ==
    LET pos == Position(b, NEWLINE)
    IN IF pos = 0 THEN [lines |-> <<>>, rest |-> b]
       ELSE LET r == DrainLines(SubSeq(b, pos + 1, Len(b)))
            IN [lines |-> <<SubSeq(b, 1, pos)>> \o r.lines, rest |-> r.rest]

\* faulty variant: >= for >: a gap of exactly 100 ms counts as stale
force_flush_AtLeast(last, t) == IF last # -1 THEN t - last >= STALE_MS ELSE FALSE

\* let force_flush = if let Some(last) = *last_time { now - last > 100 } else { false }
force_flush(last, t) == IF last # -1 THEN t - last > STALE_MS ELSE FALSE

\* faulty variant: the size check is missing, only a stale remainder is flushed
FlushRest_StaleOnly(force, b) == force /\ b # <<>>

\* (force_flush && !buf.is_empty()) || buf.len() > 1024
FlushRest(force, b) == (force /\ b # <<>>) \/ Len(b) > FLUSH_LEN

RECURSIVE PushAll(_, _, _, _)
PushAll(st, direction, lines, t) ==
    IF lines = <<>> THEN st
    ELSE PushAll(push(st, direction, Head(lines), t), direction, Tail(lines), t)

\* faulty variant: the chunk replaces what is buffered (buf = data for
\* buf.extend_from_slice(&data))
HandleRx_Overwrite(a, data, t) ==
    LET force == force_flush(a.last_rx_time, t)
        d == DrainLines(data)
        rest == FlushRest(force, d.rest)
        out == IF rest THEN d.lines \o <<d.rest>> ELSE d.lines
    IN [a EXCEPT !.rx_buffer = IF rest THEN <<>> ELSE d.rest,
                 !.last_rx_time = t,
                 !.log_store = PushAll(a.log_store, "Rx", out, t),
                 !.fed = a.fed \o <<data>>,
                 !.flushed = a.flushed \o out,
                 !.handled = Append(a.handled,
                                [epoch |-> a.epoch, t |-> t, rest |-> d.rest, out |-> out,
                                 after |-> IF rest THEN <<>> ELSE d.rest]),
                 !.nEvents = a.nEvents + 1]

\* SerialEvent::Rx(data) at time t
HandleRx(a, data, t) ==
    LET force == force_flush(a.last_rx_time, t)
        d == DrainLines(a.rx_buffer \o data)
        rest == FlushRest(force, d.rest)
        out == IF rest THEN d.lines \o <<d.rest>> ELSE d.lines
    IN [a EXCEPT !.rx_buffer = IF rest THEN <<>> ELSE d.rest,
                 !.last_rx_time = t,
                 !.log_store = PushAll(a.log_store, "Rx", out, t),
                 !.fed = a.fed \o <<data>>,
                 !.flushed = a.flushed \o out,
                 !.handled = Append(a.handled,
                                [epoch |-> a.epoch, t |-> t, rest |-> d.rest, out |-> out,
                                 after |-> IF rest THEN <<>> ELSE d.rest]),
                 !.nEvents = a.nEvents + 1]

\* one iteration of while let Ok(event) = service.events().try_recv()
HandleEvent(a, e, t) ==
    CASE e.ev = "Rx" -> HandleRx(a, e.data, t)
      [] e.ev = "Error" ->
           [a EXCEPT !.log_store = push(a.log_store, "Tx", MSG_ERROR \o e.data, t),
                     !.nEvents = a.nEvents + 1]
      [] e.ev = "Closed" -> [a EXCEPT !.is_connected = FALSE, !.nEvents = a.nEvents + 1]
      [] e.ev = "PinStates" -> [a EXCEPT !.pins = e.pins, !.nEvents = a.nEvents + 1]
      [] OTHER -> [a EXCEPT !.nEvents = a.nEvents + 1]

RECURSIVE HandleAll(_, _, _)
HandleAll(a, batch, t) ==
    IF batch = <<>> THEN a
    ELSE HandleAll(HandleEvent(a, Head(batch), t), Tail(batch), t)

\* faulty variant: the timer itself flushes a remainder gone stale, chunk or no chunk
TimerTick_FlushStale ==
    /\ IF serial_service
       THEN \E dt \in Gaps, batch \in Batches :
              /\ app.nEvents + Len(batch) <= MaxEvents
              /\ now' = now + dt
              /\ app' = LET a == HandleAll(app, batch, now + dt)
                        IN IF a.rx_buffer # <<>> /\ a.last_rx_time # -1
                                /\ now + dt - a.last_rx_time > STALE_MS
                           THEN [a EXCEPT !.rx_buffer = <<>>,
                                          !.log_store = push(a.log_store, "Rx", a.rx_buffer,
                                                             now + dt)]
                           ELSE a
       ELSE UNCHANGED <<app, now>>
    /\ UNCHANGED <<serial_service, nClicks, actorVars, libVars>>

\* the closure of the event polling timer; the request_pin_states it ends with
\* goes to the actor's command channel
TimerTick ==
    /\ IF serial_service
       THEN \E dt \in Gaps, batch \in Batches :
              /\ app.nEvents + Len(batch) <= MaxEvents
              /\ now' = now + dt
              /\ app' = HandleAll(app, batch, now + dt)
       ELSE UNCHANGED <<app, now>>
    /\ UNCHANGED <<serial_service, nClicks, actorVars, libVars>>

\* port_display.split_whitespace().next(): the first run of non-blank bytes
FirstToken(s) ==
    LET sp == Position(s, 32)
    IN IF sp = 0 THEN s ELSE SubSeq(s, 1, sp - 1)

\* whether the device of the chosen port can be opened when the thread tries
Devices == {"present", "absent"}

\* faulty variant: the device is opened before the thread is spawned and its
\* failure ("no") is returned
open_DeviceFirst(cfg, device) ==
    IF device = "present" THEN [ok |-> TRUE, e |-> <<>>] ELSE [ok |-> FALSE, e |-> <<110, 111>>]

\* SerialService::open: the channels are made, the thread is spawned, and
\* Ok(Self { cfg, tx_cmd, rx_evt }) is returned; the device is opened by the thread
open(cfg, device) == [ok |-> TRUE, e |-> <<>>]

on_connect_clicked ==
    /\ nClicks < MaxClicks
    /\ \E port_display \in PortDisplays, device \in Devices :
         IF port_display = <<>>
         THEN UNCHANGED <<serial_service, app>>
         ELSE LET name == FirstToken(port_display)
                  r == open(name, device)
              IN IF r.ok
                 THEN /\ serial_service' = TRUE
                      /\ app' = [app EXCEPT
                           !.is_connected = TRUE,
                           !.epoch = app.epoch + 1,
                           !.opens = app.opens + 1, !.device = device,
                           !.log_store = push(app.log_store, "Tx",
                                              MSG_CONNECTED \o name, now)]
                 ELSE /\ UNCHANGED serial_service
                      /\ app' = [app EXCEPT
                           !.opens = app.opens + 1, !.device = device,
                           !.log_store = push(app.log_store, "Tx",
                                              MSG_CONNECT_FAILED \o r.e, now)]
    /\ nClicks' = nClicks + 1
    /\ UNCHANGED <<now, actorVars, libVars>>

on_disconnect_clicked ==
    /\ nClicks < MaxClicks
    /\ serial_service' = FALSE
    /\ app' = [app EXCEPT
         !.rx_buffer = <<>>,
         !.last_rx_time = -1,
         !.is_connected = FALSE,
         !.log_store = push(app.log_store, "Tx", MSG_DISCONNECTED, now),
         !.fed = <<>>, !.flushed = <<>>, !.epoch = 0, !.handled = <<>>, !.opens = 0, !.device = "-"]
    /\ nClicks' = nClicks + 1
    /\ UNCHANGED <<now, actorVars, libVars>>

\* LineEnding::LF.as_bytes(): the line ending of the config the connect builds
\* (..Default::default())
LINE_ENDING == <<NEWLINE>>
\* "HEX格式错误"
MSG_HEX_ERROR == <<72, 69, 88, 230, 160, 188, 229, 188, 143, 233, 148, 153, 232, 175, 175>>

\* what the user sends: "A", "a\nb", "41 0a" and "G"
SendTexts == {<<65>>, <<97, 10, 98>>, <<52, 49, 32, 48, 97>>, <<71>>}
\* the presets on file: "AT" as text, "0D 0A" as hex, "XY" as hex
Presets == { [data |-> <<65, 84>>, is_hex |-> FALSE],
             [data |-> <<48, 68, 32, 48, 65>>, is_hex |-> TRUE],
             [data |-> <<88, 89>>, is_hex |-> TRUE] }

\* the value of a hexadecimal digit, -1 for any other character
HexVal(c) ==
    CASE c \in 48..57 -> c - 48
      [] c \in 65..70 -> c - 55
      [] c \in 97..102 -> c - 87
      [] OTHER -> 0 - 1

\* hex::decode(&hex_str): Err for an odd length or a character that is no digit
hex_decode(hex_str) ==
    IF Len(hex_str) % 2 = 1 \/ \E i \in 1..Len(hex_str) : HexVal(hex_str[i]) < 0
    THEN [ok |-> FALSE, bytes |-> <<>>]
    ELSE [ok |-> TRUE,
          bytes |-> [i \in 1..(Len(hex_str) \div 2) |->
                        HexVal(hex_str[2 * i - 1]) * 16 + HexVal(hex_str[2 * i])]]

\* the data of a send: the hex digits decoded (blanks removed first), or the
\* text followed by the line ending
SendPayload(text, is_hex) ==
    IF is_hex THEN hex_decode(Replace(text, <<32>>, <<>>))
    ELSE [ok |-> TRUE, bytes |-> text \o LINE_ENDING]

\* faulty variant: the data goes to the log the way received data does, one
\* entry for each line
LogAndSend_PerLine(a, data, t) ==
    LET d == DrainLines(data)
    IN [a EXCEPT !.log_store = PushAll(a.log_store, "Tx",
                                       d.lines \o (IF d.rest # <<>> THEN <<d.rest>> ELSE <<>>), t),
                 !.sent = Append(a.sent, data)]

\* log_store.push(Direction::Tx, data.clone()); let _ = service.send(data): the
\* Send goes to the actor's command channel
LogAndSend(a, data, t) ==
    [a EXCEPT !.log_store = push(a.log_store, "Tx", data, t),
              !.sent = Append(a.sent, data)]

on_send_clicked ==
    /\ nClicks < MaxSendClicks
    /\ \E text \in SendTexts, hex_send_mode \in BOOLEAN :
         LET data == SendPayload(text, hex_send_mode)
         IN app' = IF ~serial_service THEN app
                   ELSE IF ~data.ok
                        THEN [app EXCEPT !.log_store = push(app.log_store, "Tx", MSG_HEX_ERROR, now)]
                        ELSE LogAndSend(app, data.bytes, now)
    /\ nClicks' = nClicks + 1
    /\ UNCHANGED <<serial_service, now, actorVars, libVars>>

\* presets.iter().find(|p| p.name == name): some preset on file, or none
on_preset_selected ==
    /\ nClicks < MaxSendClicks
    /\ \/ UNCHANGED app
       \/ \E preset \in Presets :
            LET data == SendPayload(preset.data, preset.is_hex)
            IN app' = IF serial_service /\ data.ok THEN LogAndSend(app, data.bytes, now)
                      ELSE app
    /\ nClicks' = nClicks + 1
    /\ UNCHANGED <<serial_service, now, actorVars, libVars>>

AppInit ==
    /\ serial_service = FALSE
    /\ app = [rx_buffer |-> <<>>, last_rx_time |-> -1, log_store |-> LogStore_new(LOG_CAPACITY),
              is_connected |-> FALSE, pins |-> NoPins,
              fed |-> <<>>, flushed |-> <<>>, nEvents |-> 0, epoch |-> 0, handled |-> <<>>,
              sent |-> <<>>, opens |-> 0, device |-> "-"]
    /\ now = 0
    /\ nClicks = 0

\* the timer and the connection buttons
AppNext ==
    \/ TimerTick
    \/ on_connect_clicked \/ on_disconnect_clicked

\* the buttons: connection, send and presets
SendNext ==
    \/ on_connect_clicked \/ on_disconnect_clicked
    \/ on_send_clicked \/ on_preset_selected

(***************************************************************************)
(* A LogStore on its own: pushes, clears, settings and renders in any      *)
(* order (StoreSpec); the rendering of a given store (RenderSpec); the     *)
(* decoding of a given byte sequence (DecodeSpec).                         *)
(***************************************************************************)
\* the wall clock (ms since the epoch) at 15:59:59.999 and 16:00:00.000 UTC, and
\* at 16:00:00.123 UTC of the next day
WallClock == <<57599999, 57600000, 144000123>>
EarlyWall == WallClock[1]
LateWall == WallClock[2]
NextDayWall == WallClock[3]

\* the calls of to_text_with_encoding the model makes, with what each reads
\* from outside (the wall clock, the detector's answer, the effect of overflow)
RenderCall(show_timestamp, show_hex, encoding, wall, guess, overflow) ==
    [show_timestamp |-> show_timestamp, show_hex |-> show_hex, encoding |-> encoding,
     wall |-> wall, guess |-> guess, overflow |-> overflow]
RenderCalls ==
    { RenderCall(FALSE, TRUE, "Auto", LateWall, "GBK", "panic"),
      RenderCall(TRUE, TRUE, "Utf8", LateWall, "GBK", "panic"),
      RenderCall(TRUE, TRUE, "Auto", EarlyWall, "GBK", "panic"),
      RenderCall(TRUE, TRUE, "Auto", EarlyWall, "GBK", "wrap"),
      RenderCall(FALSE, FALSE, "Auto", LateWall, "windows-1252", "panic"),
      RenderCall(FALSE, FALSE, "Auto", LateWall, "GBK", "panic"),
      RenderCall(TRUE, FALSE, "Utf8", LateWall, "GBK", "panic"),
      RenderCall(TRUE, TRUE, "Utf8", NextDayWall, "GBK", "panic"),
      RenderCall(TRUE, FALSE, "Utf8", NextDayWall, "GBK", "panic"),
      RenderCall(TRUE, FALSE, "Ascii", EarlyWall, "GBK", "wrap"),
      RenderCall(FALSE, FALSE, "Gbk", LateWall, "GBK", "panic"),
      RenderCall(FALSE, FALSE, "Utf16", LateWall, "GBK", "panic") }
NoRender == [called |-> FALSE,
             c |-> RenderCall(FALSE, FALSE, "Auto", LateWall, "GBK", "panic"), text |-> <<>>]
NoDecode == [called |-> FALSE, self |-> "Auto", bytes |-> <<>>, guess |-> "GBK", out |-> <<>>]

\* what the model pushes: "Hi\n" and the bytes 00 FF 0A, at one reading of the clock
PushData == {<<72, 105, 10>>, <<0, 255, 10>>}
PushTimes == {LateWall}
\* the filters and keyword lists it sets: "i\n"; an empty keyword and "H"
Filters == {<<TRUE, TRUE>>, <<FALSE, TRUE>>, <<TRUE, FALSE>>}
KeywordLists == {<<>>, <<<<105, 10>>>>, <<<<>>, <<72>>>>}

LogEntry(timestamp, direction, data) ==
    [timestamp |-> timestamp, direction |-> direction, data |-> data]

LogStore_push ==
    /\ Len(pushes) < MaxPushes
    /\ \E direction \in {"Rx", "Tx"}, data \in PushData, t \in PushTimes :
         /\ store' = push(store, direction, data, t)
         /\ pushes' = Append(pushes, LogEntry(t, direction, data))
    /\ rendered' = NoRender
    /\ UNCHANGED <<dec, actorVars, appVars>>

LogStore_clear ==
    /\ store' = clear(store)
    /\ pushes' = <<>>
    /\ rendered' = NoRender
    /\ UNCHANGED <<dec, actorVars, appVars>>

LogStore_set_filter ==
    /\ \E f \in Filters : store' = set_filter(store, f[1], f[2])
    /\ rendered' = NoRender
    /\ UNCHANGED <<pushes, dec, actorVars, appVars>>

LogStore_set_highlight_keywords ==
    /\ \E keywords \in KeywordLists : store' = set_highlight_keywords(store, keywords)
    /\ rendered' = NoRender
    /\ UNCHANGED <<pushes, dec, actorVars, appVars>>

\* &self: the store is only read
LogStore_to_text_with_encoding ==
    /\ \E c \in RenderCalls :
         rendered' = [called |-> TRUE, c |-> c, text |-> to_text_with_encoding(store, c)]
    /\ UNCHANGED <<store, pushes, dec, actorVars, appVars>>

LogStore_to_text ==
    /\ \E c \in {r \in RenderCalls : r.encoding = "Auto"} :
         rendered' = [called |-> TRUE, c |-> c, text |-> to_text(store, c)]
    /\ UNCHANGED <<store, pushes, dec, actorVars, appVars>>

TextEncoding_decode ==
    /\ ~dec.called
    /\ dec' = [dec EXCEPT !.called = TRUE, !.out = decode(dec.self, dec.bytes, dec.guess)]
    /\ UNCHANGED <<store, pushes, rendered, actorVars, appVars>>

\* the stores RenderSpec starts from: up to MaxStored entries among empty data,
\* blanks, 00 FF 0A, "Hi", "Hi\n", "iii", GBK's "你" and GBK's wide blank
RenderData == {<<>>, <<32, 10>>, <<0, 255, 10>>, <<72, 105>>, <<72, 105, 10>>,
               <<105, 105, 105>>, <<196, 227>>, <<161, 161>>}
\* the keyword lists of these stores: those above; "H" then the opening marker,
\* and the reverse; "i" then "i" between its markers; "ii"
RenderKeywordLists ==
    KeywordLists \cup { <<<<72>>, <<12304>>>>, <<<<12304>>, <<72>>>>,
                        <<<<105>>, <<12304, 105, 12305>>>>, <<<<105, 105>>>> }
\* their timestamps: the last and the first millisecond of a day at UTC+8, and
\* for "Hi" 01:02:03.004 UTC of the first day too
RenderEntries ==
    {LogEntry(t, d, data) : t \in {EarlyWall, LateWall}, d \in {"Rx", "Tx"}, data \in RenderData}
    \cup {LogEntry(3723004, d, <<72, 105>>) : d \in {"Rx", "Tx"}}
RenderStores ==
    { [LogStore_new(LOG_CAPACITY) EXCEPT !.entries = es, !.filter_rx = f[1], !.filter_tx = f[2],
                                         !.highlight_keywords = k] :
        es \in UNION {[1..n -> RenderEntries] : n \in 0..MaxStored},
        f \in Filters, k \in RenderKeywordLists }

\* the bytes DecodeSpec decodes: A, line feed, NUL, the digit 0, and the bytes that
\* make "é" in UTF-8, byte order marks, and lead and trail bytes of the other codecs
ByteSamples == {65, 10, 0, 48, 195, 169, 255, 254, 129}
DecodeInputs == UNION {[1..n -> ByteSamples] : n \in 0..MaxBytes}

LibIdle ==
    /\ store = LogStore_new(0)
    /\ pushes = <<>>
    /\ rendered = NoRender
    /\ dec = NoDecode

StoreInit ==
    /\ ActorInit /\ AppInit
    /\ store \in {LogStore_new(k) : k \in 0..MaxCap}
    /\ pushes = <<>>
    /\ rendered = NoRender
    /\ dec = NoDecode

RenderInit ==
    /\ ActorInit /\ AppInit
    /\ store \in RenderStores
    /\ pushes = store.entries
    /\ rendered = NoRender
    /\ dec = NoDecode

DecodeInit ==
    /\ ActorInit /\ AppInit
    /\ store = LogStore_new(0)
    /\ pushes = <<>>
    /\ rendered = NoRender
    /\ dec \in [called : {FALSE}, self : TextEncoding, bytes : DecodeInputs, guess : Guesses,
                 out : {<<>>}]

StoreNext ==
    \/ LogStore_push \/ LogStore_clear
    \/ LogStore_set_filter \/ LogStore_set_highlight_keywords
    \/ LogStore_to_text_with_encoding \/ LogStore_to_text

RenderNext == LogStore_to_text_with_encoding \/ LogStore_to_text

Init == ActorInit /\ AppInit /\ LibIdle

Next == ActorNext \/ HandleNext

Spec == Init /\ [][Next]_vars

LiveSpec == Spec /\ WF_vars(ActorNext)

AppSpec == Init /\ [][AppNext]_vars

SendSpec == Init /\ [][SendNext]_vars

StoreSpec == StoreInit /\ [][StoreNext]_vars

RenderSpec == RenderInit /\ [][RenderNext]_vars

DecodeSpec == DecodeInit /\ [][TextEncoding_decode]_vars

(***************************************************************************)
(* Properties.                                                             *)
(***************************************************************************)
Last(s) == s[Len(s)]

Events(kind) == {i \in 1..Len(emitted) : emitted[i].ev = kind}

InQueue(cmd) == \E i \in 1..Len(cmdQ) : cmdQ[i] = cmd

Polling == pc \in {"read", "drain", "sleep"}

\* the payloads of the Rx events, in emission order
RECURSIVE RxPayloads(_)
RxPayloads(es) ==
    IF es = <<>> THEN <<>>
    ELSE (IF Head(es).ev = "Rx" THEN <<Head(es).data>> ELSE <<>>) \o RxPayloads(Tail(es))

\* C1: the events handed to the event channel hold at most one Closed, and
\* Closed is the last of them: nothing of any kind is emitted after it.
C1_ClosedOnceAndLast ==
    \A i \in 1..Len(emitted) : emitted[i].ev = "Closed" => i = Len(emitted)

\* two Close commands were enqueued, the first was acted on, the thread is gone
C1_Witness ==
    /\ pc = "done"
    /\ acted = <<Close>>
    /\ nCalls = 2
    /\ lastCall.op = "close" /\ ~lastCall.tornDown

OpenFailureStream ==
    openResult = "failed" =>
        /\ pc \in {"open_failed", "exiting", "done"}
        /\ acted = <<>> /\ devRead = <<>>
        /\ pc = "open_failed" => emitted = <<Error("open failed: no such device")>>
        /\ pc \in {"exiting", "done"} =>
               emitted = <<Error("open failed: no such device"), Closed>>

\* C2: when the device open fails, the thread never enters the loop and acts on
\* no command; its events are Error, then Closed, and nothing else: once Closed
\* is sent the whole stream is exactly <<Error(open failed), Closed>>; and (the
\* thread being scheduled) the thread ends.
C2_OpenFailureStream ==
    /\ []OpenFailureStream
    /\ (openResult = "failed") ~> (pc = "done")

\* the open failed, the thread ended, and commands had been enqueued meanwhile
C2_Witness ==
    /\ openResult = "failed"
    /\ pc = "done"
    /\ nCalls = 2
    /\ ~lastCall.tornDown

\* C3: when the device open succeeds, Opened(cfg.port_name) is the first event
\* and the only Opened; no command is acted on and no byte is read before it.
C3_OpenedFirstAndOnce ==
    /\ openResult = "ok" =>
           /\ emitted # <<>>
           /\ emitted[1] = Opened(port_name)
           /\ Events("Opened") = {1}
    /\ (acted # <<>> \/ devRead # <<>>) => openResult = "ok"
    /\ openResult # "ok" => Events("Opened") = {}

\* the open succeeded, bytes were read and a command was acted on
C3_Witness ==
    /\ openResult = "ok"
    /\ acted # <<>>
    /\ devRead # <<>>
    /\ Len(emitted) >= 3

PinFailures ==
    Cardinality({<<i, l>> \in (1..Len(pinReads)) \X {"cts", "dsr", "dcd", "ri"} :
                    pinReads[i][l] = "err"})

\* the pins of the PinStates events, in emission order
RECURSIVE PinEvents(_)
PinEvents(es) ==
    IF es = <<>> THEN <<>>
    ELSE (IF Head(es).ev = "PinStates" THEN <<Head(es).pins>> ELSE <<>>) \o PinEvents(Tail(es))

\* C5 as claimed: every failed device call made while acting on a command (a
\* write, a DTR/RTS set, a line read of a pin-state query) is answered by an
\* Error event.
C5_EveryFailureReported ==
    openResult = "ok" => Cardinality(Events("Error")) = ioFailures + PinFailures

\* C5 as amended: every failed write and every failed DTR/RTS set is answered
\* by one Error event; a failed line read of a pin-state query is answered by
\* no Error: the PinStates event shows that line as false; and no failure ends
\* the thread.
C5_WriteAndSetFailuresReported ==
    /\ openResult = "ok" => Cardinality(Events("Error")) = ioFailures
    /\ LET pe == PinEvents(emitted)
       IN /\ Len(pe) = Len(pinReads)
          /\ \A i \in 1..Len(pe) : \A l \in {"cts", "dsr", "dcd", "ri"} :
                 pe[i][l] = (pinReads[i][l] = "hi")
    /\ (pc \in {"exiting", "done"} /\ openResult = "ok") => Last(acted) = Close

\* a set failed, and the query acted on after it met failing line reads
C5_Witness ==
    /\ Len(acted) = 2
    /\ acted[1].op = "SetDtr" /\ acted[2] = GetPinStates
    /\ ioFailures = 1
    /\ PinFailures = 2
    /\ Polling

\* C6: the thread leaves the loop only through a Close it acted on or through
\* the failure of the open; otherwise it is still before the open or polling,
\* whatever device calls failed and whether or not the handle still exists.
C6_OnlyCloseOrOpenFailureTerminates ==
    pc \in {"exiting", "done"} =>
        \/ openResult = "failed"
        \/ (acted # <<>> /\ Last(acted) = Close)

\* the handle is gone, device calls have failed, and the thread still polls
C6_Witness ==
    /\ ~handleAlive
    /\ ioFailures > 0
    /\ pc = "read"
    /\ cmdQ = <<>>
    /\ nReads = MaxReads

\* C7: a drain never ends with a Close left in the queue, so a Close enqueued
\* while the thread polls is acted on in the first drain after the enqueue; and
\* (the thread being scheduled) Closed is then emitted and the thread ends.
C7_CloseTakesEffectNextDrain ==
    /\ [][(pc = "drain" /\ pc' = "sleep") => ~InQueue(Close)]_vars
    /\ (Polling /\ InQueue(Close)) ~> (pc = "done" /\ Last(emitted) = Closed)

\* a Send and then a Close were acted on, and the thread has ended
C7_Witness ==
    /\ openResult = "ok"
    /\ pc = "done"
    /\ Len(acted) = 2
    /\ acted[1].op = "Send" /\ acted[2] = Close
    /\ Last(emitted) = Closed

\* C8: the payloads of the Rx events, concatenated in emission order, are the
\* bytes the successful device reads returned, in read order, and no Rx event
\* has an empty payload.
C8_RxIsWhatWasRead ==
    /\ Concat(RxPayloads(emitted)) = devRead
    /\ \A i \in Events("Rx") : emitted[i].data # <<>>

\* two reads, the second shorter than the first: the buffer keeps a stale byte
C8_Witness ==
    /\ devRead = <<2, 10, 1>>
    /\ buf[2] = 10
    /\ Cardinality(Events("Rx")) = 2

\* C9 as claimed: the flushed lines, concatenated in order, are the
\* concatenation of the chunks fed to the framer.
C9_FlushedEqualsFed ==
    Concat(app.flushed) = Concat(app.fed)

\* C9 as amended: for the chunks fed since the framer's buffer was last reset
\* (at start, or by a disconnect, which discards what is buffered), the flushed
\* lines concatenated in order, followed by the bytes still in the accumulation
\* buffer, are the concatenation of the chunks.
C9_FlushedThenBufferEqualsFed ==
    Concat(app.flushed) \o app.rx_buffer = Concat(app.fed)

\* two chunks were fed, lines were flushed and a remainder is still buffered
C9_Witness ==
    /\ Len(app.fed) = 2
    /\ Len(app.flushed) >= 2
    /\ app.rx_buffer # <<>>

\* C10: after a chunk is handled the accumulation buffer holds no 0x0A, and a
\* flushed line holds at most one 0x0A, as its last byte: two terminated lines
\* of one chunk are two entries.
C10_EagerTerminatorFlush ==
    /\ Position(app.rx_buffer, NEWLINE) = 0
    /\ \A i \in 1..Len(app.flushed) :
         LET line == app.flushed[i]
         IN /\ line # <<>>
            /\ Count(line, NEWLINE) <= 1
            /\ Count(line, NEWLINE) = 1 => Last(line) = NEWLINE

\* one chunk brought two terminated lines and they are two consecutive entries
C10_Witness ==
    /\ Len(app.fed) = 1
    /\ app.fed[1] = <<98, NEWLINE, 99, NEWLINE, 100>>
    /\ app.flushed = <<<<98, NEWLINE>>, <<99, NEWLINE>>>>
    /\ app.rx_buffer = <<100>>

\* C11: after the handling of every chunk the accumulation buffer holds at most
\* 1024 bytes: a remainder longer than that is flushed whole, as one entry, in
\* the handling of the chunk that made it so, however little time has passed.
C11_SizeBoundedFlush ==
    /\ Len(app.rx_buffer) <= FLUSH_LEN
    /\ \A i \in 1..Len(app.handled) :
         LET h == app.handled[i]
         IN /\ Len(h.after) <= FLUSH_LEN
            /\ Len(h.rest) > FLUSH_LEN =>
                   /\ h.after = <<>>
                   /\ h.out # <<>> /\ Last(h.out) = h.rest

\* a chunk handled in the same tick as the one before it brought the remainder
\* to 1025 bytes, and the remainder went to the log
C11_Witness ==
    /\ Len(app.handled) = 2
    /\ app.handled[2].t = app.handled[1].t
    /\ Len(app.handled[1].after) = 1
    /\ Len(app.handled[2].rest) = FLUSH_LEN + 1
    /\ app.flushed = <<app.handled[2].rest>>
    /\ app.rx_buffer = <<>>

\* the chunk before chunk i, when it belongs to the same connection
PrevInConnection(i) == i > 1 /\ app.handled[i - 1].epoch = app.handled[i].epoch

\* the chunk before chunk i, handled since the buffer was last reset
PrevSinceReset(i) == i > 1

\* the stale-flush policy, for a given reading of "the previous chunk"
StaleFlushPolicy(HasPrev(_)) ==
    /\ app.handled # <<>> => Last(app.handled).after = app.rx_buffer
    /\ \A i \in 1..Len(app.handled) :
         LET h == app.handled[i]
             stale == HasPrev(i) /\ h.t - app.handled[i - 1].t > STALE_MS
         IN /\ (stale /\ h.rest # <<>>) =>
                   /\ h.out # <<>> /\ Last(h.out) = h.rest
                   /\ h.after = <<>>
            /\ (~stale /\ Len(h.rest) <= FLUSH_LEN) =>
                   /\ h.after = h.rest
                   /\ h.out = <<>> \/ Last(h.out) # h.rest

\* C12 as claimed: a remainder is flushed, whole and as one entry, when the
\* chunk comes more than 100 ms after the previous chunk of the same connection;
\* it is kept (when at most 1024 bytes long) when the gap is at most 100 ms or
\* the chunk is the first one since a connect or a disconnect.
C12_StaleSinceConnectOrDisconnect == StaleFlushPolicy(PrevInConnection)

\* C12 as amended: the previous chunk is the latest one handled since the start
\* or the last disconnect, whichever connection brought it: a connect does not
\* reset the reference.  A remainder is flushed, whole and as one entry, leaving
\* the buffer empty, when the chunk comes more than 100 ms after that chunk; it
\* is kept (when at most 1024 bytes long) when the gap is at most 100 ms or no
\* chunk was handled since the start or the last disconnect.
C12_StaleSinceStartOrDisconnect == StaleFlushPolicy(PrevSinceReset)

\* the first chunk left a remainder in the buffer; the second came 101 ms later
\* and the two went to the log as one entry
C12_Witness ==
    /\ Len(app.handled) = 2
    /\ app.handled[1].after = <<97>>
    /\ app.handled[2].t - app.handled[1].t = STALE_MS + 1
    /\ app.handled[2].out = <<<<97, 97>>>>
    /\ app.rx_buffer = <<>>

\* the last k elements of s, all of s when it has fewer
Recent(s, k) == SubSeq(s, Len(s) - (IF k < Len(s) THEN k ELSE Len(s)) + 1, Len(s))

\* the step is a push
IsPush == pushes' # pushes /\ pushes' # <<>>

\* C13: a LogStore of capacity k never holds more than k entries; what it holds
\* is the k most recent pushes since the last clear (all of them when there are
\* fewer), in insertion order; and a push into a full store evicts exactly the
\* oldest entry, every other entry keeping its place in the order.
C13_BoundedFifo ==
    /\ [](/\ Len(store.entries) <= store.max_entries
          /\ store.entries = Recent(pushes, store.max_entries))
    /\ [][IsPush =>
             IF Len(store.entries) = store.max_entries
             THEN /\ Len(store'.entries) = Len(store.entries)
                  /\ store.max_entries > 0 =>
                         /\ Last(store'.entries) = Last(pushes')
                         /\ SubSeq(store'.entries, 1, Len(store.entries) - 1)
                                = Tail(store.entries)
             ELSE store'.entries = Append(store.entries, Last(pushes'))]_vars

\* three pushes into a store of capacity two: the first one is gone
C13_Witness ==
    /\ store.max_entries = 2
    /\ Len(pushes) = 3
    /\ pushes[1] # pushes[2] /\ pushes[2] # pushes[3]
    /\ store.entries = <<pushes[2], pushes[3]>>

\* the rendering of entry e alone, under the settings of `self` with both
\* directions shown
RenderedAlone(self, e, c) ==
    to_text_with_encoding([self EXCEPT !.entries = <<e>>, !.filter_rx = TRUE,
                                       !.filter_tx = TRUE], c)

\* the renderings of the entries of es whose direction `self` shows, in order
RECURSIVE RenderedShown(_, _, _)
RenderedShown(self, es, c) ==
    IF es = <<>> THEN <<>>
    ELSE (IF (Head(es).direction = "Rx" /\ self.filter_rx)
              \/ (Head(es).direction = "Tx" /\ self.filter_tx)
          THEN RenderedAlone(self, Head(es), c) ELSE <<>>)
         \o RenderedShown(self, Tail(es), c)

\* C14: only push and clear change the stored entries: set_filter,
\* set_highlight_keywords and the renders leave them as they are; and a render
\* that returns yields, in insertion order, what each entry of an enabled
\* direction renders to on its own, and nothing for the others: with show_rx
\* off only the Tx entries, with both filters on all of the stored entries.
C14_FilterIsLossless ==
    /\ [][pushes' = pushes => store'.entries = store.entries]_vars
    /\ []((rendered.called /\ rendered.text # Panic) =>
             rendered.text = RenderedShown(store, store.entries, rendered.c))

\* an Rx and a Tx entry are stored, Rx is filtered out, and the render shows
\* the one Tx line
C14_Witness ==
    /\ Len(store.entries) = 2
    /\ store.entries[1].direction = "Rx" /\ store.entries[2].direction = "Tx"
    /\ ~store.filter_rx /\ store.filter_tx
    /\ rendered.called /\ rendered.c.show_hex /\ ~rendered.c.show_timestamp
    /\ rendered.text = <<84, 88, 58, 32, 52, 56, 32, 54, 57, 32, 48, 65, 32, 10>>

\* the entries of the store that its filter shows, in order
Shown == SelectSeq(store.entries,
                   LAMBDA e : IF e.direction = "Rx" THEN store.filter_rx ELSE store.filter_tx)

\* "0123456789ABCDEF"
HexChars == <<48, 49, 50, 51, 52, 53, 54, 55, 56, 57, 65, 66, 67, 68, 69, 70>>

\* the timestamp in front of entry e in the latest render, if any
Stamp(e) ==
    IF rendered.c.show_timestamp
    THEN Timestamp(e.timestamp, rendered.c.wall, rendered.c.overflow) ELSE <<>>

\* the line of entry e in hex mode: prefix, two uppercase digits and a space
\* for each byte, newline
HexLine(e) ==
    (IF e.direction = "Rx" THEN <<82, 88, 58, 32>> ELSE <<84, 88, 58, 32>>)
    \o Concat([i \in 1..Len(e.data) |->
                  <<HexChars[(e.data[i] \div 16) + 1], HexChars[(e.data[i] % 16) + 1], 32>>])
    \o <<10>>

\* C15: a render in hex mode that returns is, for the shown entries in order,
\* one line each whatever the bytes are (none, or blanks only, too): after the
\* timestamp, if any, the prefix "RX: " or "TX: ", two uppercase hex digits and
\* a space for each byte, and a newline.
C15_HexLinePerEntry ==
    (rendered.called /\ rendered.c.show_hex /\ rendered.text # Panic) =>
        /\ rendered.text = Concat([i \in 1..Len(Shown) |-> Stamp(Shown[i]) \o HexLine(Shown[i])])
        /\ Count(rendered.text, 10) = Len(Shown)

\* the Rx entry 00 FF 0A rendered in hex mode is "RX: 00 FF 0A \n"
C15_Witness ==
    /\ rendered.called /\ rendered.c.show_hex /\ ~rendered.c.show_timestamp
    /\ Len(Shown) = 1
    /\ Shown[1].direction = "Rx" /\ Shown[1].data = <<0, 255, 10>>
    /\ rendered.text = <<82, 88, 58, 32, 48, 48, 32, 70, 70, 32, 48, 65, 32, 10>>

\* the decoded text of entry e in the latest render
Decoded(e) == decode(rendered.c.encoding, e.data, rendered.c.guess)

\* no character, or blanks only
Blank(text) == \A i \in 1..Len(text) : is_whitespace(text[i])

\* text, and a newline when it does not end in one
WithNewline(text, ends) == text \o (IF Last(ends) = 10 THEN <<>> ELSE <<10>>)

\* C16 as claimed: a render in text mode that returns is, for the shown entries
\* in order: nothing for an entry whose decoded text is empty or blank; else,
\* after the timestamp, if any, the prefix and the decoded text, and a newline
\* when the decoded text does not end in one.
C16_PrefixThenDecodedText ==
    (rendered.called /\ ~rendered.c.show_hex /\ rendered.text # Panic) =>
        rendered.text = Concat([i \in 1..Len(Shown) |->
            LET text == Decoded(Shown[i])
            IN IF Blank(text) THEN <<>>
               ELSE Stamp(Shown[i]) \o Prefix(Shown[i].direction) \o WithNewline(text, text)])

\* C16 as amended: a render in text mode that returns is, for the shown entries
\* in order: nothing for an entry whose decoded text is empty or blank; else,
\* after the timestamp, if any, the prefix and the decoded text with the
\* highlight keywords marked in it, and a newline when that marked-up text does
\* not end in one.
C16_PrefixThenMarkedText ==
    (rendered.called /\ ~rendered.c.show_hex /\ rendered.text # Panic) =>
        rendered.text = Concat([i \in 1..Len(Shown) |->
            LET text == Decoded(Shown[i])
                marked == Highlight(text, store.highlight_keywords)
            IN IF Blank(text) THEN <<>>
               ELSE Stamp(Shown[i]) \o Prefix(Shown[i].direction) \o WithNewline(marked, marked)])

\* "Hi\n" with the keyword "i\n": the markers enclose the newline and one more
\* is appended
C16_Witness ==
    /\ rendered.called /\ ~rendered.c.show_hex /\ ~rendered.c.show_timestamp
    /\ Len(Shown) = 1
    /\ Shown[1].data = <<72, 105, 10>>
    /\ store.highlight_keywords = <<<<105, 10>>>>
    /\ rendered.text = <<84, 88, 58, 32, 72, 12304, 105, 10, 12305, 10>>

\* C17: a step that hands data to SerialService::send, from the send button or
\* a preset, hands over one data and appends exactly one entry to the log: a Tx
\* entry holding that data byte for byte, 0x0A bytes and all; so the log holds
\* the sends whole and in order.
C17_OneTxEntryPerSend ==
    [][app'.sent # app.sent =>
         /\ Len(app'.sent) = Len(app.sent) + 1
         /\ SubSeq(app'.sent, 1, Len(app.sent)) = app.sent
         /\ Len(app'.log_store.entries) = Len(app.log_store.entries) + 1
         /\ SubSeq(app'.log_store.entries, 1, Len(app.log_store.entries))
                = app.log_store.entries
         /\ Last(app'.log_store.entries).direction = "Tx"
         /\ Last(app'.log_store.entries).data = Last(app'.sent)]_vars

\* the text "a\nb" was sent with its line ending and is one entry of the log
C17_Witness ==
    /\ app.sent = <<<<97, 10, 98, 10>>>>
    /\ Len(app.log_store.entries) = 2
    /\ Last(app.log_store.entries).data = <<97, 10, 98, 10>>

\* the UTF-8 encoding of a String
RECURSIVE Utf8Encode(_)
Utf8Encode(str) ==
    IF str = <<>> THEN <<>>
    ELSE LET c == Head(str)
             cont(k) == 128 + ((c \div k) % 64)
         IN (CASE c < 128 -> <<c>>
               [] c \in 128..2047 -> <<192 + (c \div 64), cont(1)>>
               [] c \in 2048..65535 -> <<224 + (c \div 4096), cont(64), cont(1)>>
               [] OTHER -> <<240 + (c \div 262144), cont(4096), cont(64), cont(1)>>)
            \o Utf8Encode(Tail(str))

\* C18: decode returns a String for every encoding and every byte sequence,
\* malformed ones included, and never panics; decode(Auto, empty) is the empty
\* String; and decode(Auto, b) for valid UTF-8 b is the String that b encodes.
C18_DecodeIsTotal ==
    dec.called =>
        /\ dec.out # Panic
        /\ \A i \in 1..Len(dec.out) : dec.out[i] >= 0
        /\ (dec.self = "Auto" /\ dec.bytes = <<>>) => dec.out = <<>>
        /\ (dec.self = "Auto" /\ from_utf8(dec.bytes).ok) => Utf8Encode(dec.out) = dec.bytes

\* Auto was given a sequence that is not UTF-8 and the detector's codec put a
\* replacement character for the malformed part
C18_Witness ==
    /\ dec.called
    /\ dec.self = "Auto"
    /\ dec.bytes = <<195, 255, 65>>
    /\ ~from_utf8(dec.bytes).ok
    /\ dec.out = <<65533, 65>>

\* the events a command answers with: Tx, PinStates, and the Error of a device call
IsCommandEvent(e) == e.ev \in {"Tx", "PinStates"} \/ (e.ev = "Error" /\ e.msg \in IoErrors)

CommandEvents == SelectSeq(emitted, IsCommandEvent)

\* what the claim allots to a command, given what the device answered
AllottedEvents(cmd, a) ==
    CASE cmd.op = "Send" -> <<IF a.ok THEN Tx(a.n) ELSE Error(a.e)>>
      [] cmd.op \in {"SetDtr", "SetRts"} -> IF a.ok THEN <<>> ELSE <<Error(a.e)>>
      [] cmd.op = "GetPinStates" ->
             <<PinStates([cts |-> a.pins.cts = "hi", dsr |-> a.pins.dsr = "hi",
                          dcd |-> a.pins.dcd = "hi", ri |-> a.pins.ri = "hi"])>>
      [] OTHER -> <<>>

IsPrefix(s, t) == Len(s) <= Len(t) /\ SubSeq(t, 1, Len(s)) = s

\* C19: the events of the commands acted on are, command after command in the
\* order the commands were enqueued: for a Send the one event Tx(n), n being what
\* the one write call reported, or Error; for a SetDtr or SetRts nothing when the
\* set succeeded and one Error when it failed; for a GetPinStates one PinStates.
C19_EventsPerCommand ==
    /\ Len(answers) = Len(acted)
    /\ IsPrefix(acted, enqueued)
    /\ CommandEvents = Concat([i \in 1..Len(acted) |-> AllottedEvents(acted[i], answers[i])])

\* a write that took one byte of two was reported as Tx(1), and the pin states
\* asked for afterwards came after it
C19_Witness ==
    /\ acted = <<Send(<<65, 10>>), GetPinStates>>
    /\ answers[1].ok /\ answers[1].n = 1
    /\ Len(CommandEvents) = 2
    /\ CommandEvents[1] = Tx(1)
    /\ CommandEvents[2].ev = "PinStates"

\* the place of the first Close among the commands enqueued, 0 when there is none
FirstClose ==
    IF \E i \in 1..Len(enqueued) : enqueued[i] = Close
    THEN CHOOSE i \in 1..Len(enqueued) :
             enqueued[i] = Close /\ \A j \in 1..(i - 1) : enqueued[j] # Close
    ELSE 0

\* C20: the commands acted on are at every moment the first ones enqueued, each
\* once and in enqueue order, the rest waiting in the channel; none enqueued
\* after the first Close is among them, whatever its call returned; and once
\* the loop has emitted Closed, all up to the first Close have been acted on,
\* and device calls and command events are those of that prefix only.
C20_CloseCutsTheQueue ==
    /\ IsPrefix(acted, enqueued)
    /\ pc # "done" => enqueued = acted \o cmdQ
    /\ FirstClose > 0 => Len(acted) <= FirstClose
    /\ (openResult = "ok" /\ \E i \in 1..Len(emitted) : emitted[i] = Closed) =>
           /\ FirstClose > 0
           /\ acted = SubSeq(enqueued, 1, FirstClose)
    /\ Len(answers) = Len(acted)
    /\ Len(CommandEvents) <= Len(acted)

\* a Send was accepted after the Close, its call returned Ok, and the thread
\* ended having acted on the Close alone
C20_Witness ==
    /\ enqueued = <<Close, Send(<<65, 10>>)>>
    /\ lastCall.op = "send" /\ lastCall.result = "Ok"
    /\ pc = "done"
    /\ acted = <<Close>>
    /\ CommandEvents = <<>>

\* where keyword first occurs in text, 0 when it does not
FirstMatch(text, keyword) ==
    LET at == {i \in 1..(Len(text) - Len(keyword) + 1) :
                  SubSeq(text, i, i + Len(keyword) - 1) = keyword}
    IN IF at = {} THEN 0 ELSE CHOOSE i \in at : \A j \in at : i <= j

\* text with every occurrence of keyword between the markers, the occurrences
\* taken from the left, each search going on after the occurrence before
RECURSIVE WrapAll(_, _)
WrapAll(text, keyword) ==
    LET i == FirstMatch(text, keyword)
    IN IF i = 0 THEN text
       ELSE SubSeq(text, 1, i - 1) \o <<12304>> \o keyword \o <<12305>>
               \o WrapAll(SubSeq(text, i + Len(keyword), Len(text)), keyword)

\* text after the first n keywords of the list, each applied to what the
\* keywords before it left, the empty ones skipped
RECURSIVE MarkedUpTo(_, _, _)
MarkedUpTo(text, keywords, n) ==
    IF n = 0 THEN text
    ELSE LET before == MarkedUpTo(text, keywords, n - 1)
         IN IF keywords[n] = <<>> THEN before ELSE WrapAll(before, keywords[n])

Reverse(s) == [i \in 1..Len(s) |-> s[Len(s) + 1 - i]]

\* C21: in a render in text mode that returns, the text of each shown entry that
\* is not blank is its decoded text marked by the keywords one after another in
\* list order, the empty ones skipped: each keyword has all its occurrences in
\* the text as the keywords before it left it, markers included, put between the
\* markers, from the left and without overlap.
C21_KeywordsInListOrder ==
    (rendered.called /\ ~rendered.c.show_hex /\ rendered.text # Panic) =>
        rendered.text = Concat([i \in 1..Len(Shown) |->
            LET text == Decoded(Shown[i])
                keywords == store.highlight_keywords
                marked == MarkedUpTo(text, keywords, Len(keywords))
            IN IF Blank(text) THEN <<>>
               ELSE Stamp(Shown[i]) \o Prefix(Shown[i].direction) \o WithNewline(marked, marked)])

\* "Hi" with the keywords "H" and then the opening marker: the second keyword
\* marks the marker the first one put in, and the list reversed would have
\* given another text
C21_Witness ==
    /\ rendered.called /\ ~rendered.c.show_hex /\ ~rendered.c.show_timestamp
    /\ Len(Shown) = 1
    /\ Shown[1].direction = "Rx" /\ Shown[1].data = <<72, 105>>
    /\ store.highlight_keywords = <<<<72>>, <<12304>>>>
    /\ rendered.text = <<82, 88, 58, 32, 12304, 12304, 12305, 72, 12305, 105, 10>>
    /\ rendered.text # to_text_with_encoding(
           [store EXCEPT !.highlight_keywords = Reverse(store.highlight_keywords)], rendered.c)

\* "0123456789"
DecChars == <<48, 49, 50, 51, 52, 53, 54, 55, 56, 57>>

\* n in decimal, k digits wide
RECURSIVE Dec(_, _)
Dec(n, k) == IF k = 0 THEN <<>> ELSE Dec(n \div 10, k - 1) \o <<DecChars[(n % 10) + 1]>>

\* "[HH:MM:SS.mmm] " for t ms since the epoch, at UTC+8: the time of day of
\* (t div 1000) + 8*3600 seconds and t mod 1000
ClockStamp(t) ==
    LET second_of_day == ((t \div 1000) + 8 * 3600) % 86400
    IN <<91>> \o Dec(second_of_day \div 3600, 2) \o <<58>>
            \o Dec((second_of_day % 3600) \div 60, 2) \o <<58>>
            \o Dec(second_of_day % 60, 2) \o <<46>> \o Dec(t % 1000, 3) \o <<93, 32>>

\* the clock read by a render was not earlier than the timestamp of any shown entry
NotEarlier(c) == \A i \in 1..Len(Shown) : c.wall >= Shown[i].timestamp

StartsWith(s, head) == Len(s) >= Len(head) /\ SubSeq(s, 1, Len(head)) = head

\* C23: every call of SerialService::open returns a handle, whether its device
\* can be opened or not: no connect ever takes the error branch, and the step
\* that calls open stores the handle, sets is_connected and logs the
\* connection, with no event handled; is_connected is never set by an event,
\* Opened included, so the connection is on record before any event of the
\* thread, and a failure to open can only show later, in the events.
C23_OpenAlwaysReturnsHandle ==
    /\ [](/\ app.epoch = app.opens
          /\ \A i \in 1..Len(app.log_store.entries) :
                ~StartsWith(app.log_store.entries[i].data, MSG_CONNECT_FAILED))
    /\ [][(app'.opens > app.opens) =>
             /\ serial_service' /\ app'.is_connected
             /\ app'.nEvents = app.nEvents
             /\ StartsWith(Last(app'.log_store.entries).data, MSG_CONNECTED)]_vars
    /\ [][(app'.is_connected /\ ~app.is_connected) =>
             app'.opens > app.opens]_vars

\* connected to a port whose device cannot be opened: the handle is stored and
\* the connection is on record before any event has been handled
C23_Witness ==
    /\ app.opens = 1 /\ app.device = "absent"
    /\ serial_service /\ app.is_connected
    /\ app.nEvents = 0
    /\ Len(app.log_store.entries) = 1
    /\ StartsWith(app.log_store.entries[1].data, MSG_CONNECTED)

\* C24: a read step that brings no byte (the read failed, timed out, or
\* returned zero bytes) sends no event and takes the thread to the command
\* drain of the same iteration; a drain ends in the sleep unless a Close was
\* acted on, and the sleep ends in the next read; and Error events are never
\* more than the failed writes and sets and the failed open.
C24_EmptyReadIsSilent ==
    /\ [][(pc = "read" /\ pc' # "read" /\ devRead' = devRead) =>
             /\ emitted' = emitted /\ evtQ' = evtQ
             /\ pc' = "drain"]_vars
    /\ [][(pc = "drain" /\ pc' # "drain") =>
             \/ pc' = "sleep"
             \/ (pc' = "exiting" /\ Last(acted') = Close)]_vars
    /\ [][(pc = "sleep" /\ pc' # "sleep") => pc' = "read"]_vars
    /\ [](Cardinality(Events("Error"))
             <= ioFailures + (IF openResult = "failed" THEN 1 ELSE 0))

\* the pin states were sent before the first Rx: the read of the first
\* iteration brought nothing and sent nothing, its drain acted on the query,
\* and a read of a later iteration brought a byte
C24_Witness ==
    /\ Len(emitted) = 3
    /\ emitted[1] = Opened(port_name)
    /\ emitted[2].ev = "PinStates"
    /\ emitted[3] = Rx(<<1>>)
    /\ acted = <<GetPinStates>>
    /\ devRead = <<1>>

\* the data of the Rx entries of a log, in order
RxEntries(entries) ==
    LET rx == SelectSeq(entries, LAMBDA e : e.direction = "Rx")
    IN [i \in 1..Len(rx) |-> rx[i].data]

\* the entries flushed by the first i chunks handled
FlushedBy(i) == Concat([k \in 1..i |-> app.handled[k].out])

\* C25: while connected (from the connect that follows the start or a
\* disconnect until the next disconnect), after each Rx event handled: the Rx
\* entries flushed so far, concatenated in order, followed by the buffer as
\* that event left it, are the chunks handled so far, concatenated; the entries
\* flushed are the latest Rx entries of the log, in order; and the buffer is
\* what the latest chunk left.
C25_NoByteLostWhileConnected ==
    serial_service =>
        /\ Len(app.handled) = Len(app.fed)
        /\ \A i \in 1..Len(app.handled) :
              Concat(FlushedBy(i)) \o app.handled[i].after = Concat(SubSeq(app.fed, 1, i))
        /\ FlushedBy(Len(app.handled)) = app.flushed
        /\ LET rx == RxEntries(app.log_store.entries)
           IN /\ Len(app.flushed) <= Len(rx)
              /\ SubSeq(rx, Len(rx) - Len(app.flushed) + 1, Len(rx)) = app.flushed
        /\ app.handled # <<>> => Last(app.handled).after = app.rx_buffer

\* "a", then "b\nc\nd": the entries "ab\n" and "c\n" are in the log and "d" is
\* in the buffer
C25_Witness ==
    /\ serial_service /\ app.epoch = 1
    /\ app.fed = <<<<97>>, <<98, 10, 99, 10, 100>>>>
    /\ RxEntries(app.log_store.entries) = <<<<97, 98, 10>>, <<99, 10>>>>
    /\ app.rx_buffer = <<100>>

\* the framer's own state and what it has put in the log
Framer(a) == <<a.rx_buffer, a.last_rx_time, RxEntries(a.log_store.entries)>>

\* C26: a tick of the timer (the clock moves on) that handles no Rx event
\* leaves the accumulation buffer, the time of the last chunk and the Rx
\* entries of the log as they were; the Rx entries change in no other step than
\* a tick handling a chunk; and a disconnect empties the buffer and forgets the
\* time of the last chunk without adding an Rx entry.
C26_FlushOnlyOnRx ==
    /\ [][(now' # now /\ app'.fed = app.fed) => Framer(app') = Framer(app)]_vars
    /\ [][(RxEntries(app'.log_store.entries) # RxEntries(app.log_store.entries)) =>
             now' # now /\ Len(app'.fed) > Len(app.fed)]_vars
    /\ [][(serial_service /\ ~serial_service') =>
             Framer(app') = <<<<>>, 0 - 1, RxEntries(app.log_store.entries)>>]_vars

\* "a" is in the buffer since the chunk before; the latest tick, more than
\* 100 ms after that chunk, handled an event that was no Rx and flushed nothing
C26_Witness ==
    /\ serial_service
    /\ app.rx_buffer = <<97>>
    /\ app.fed = <<<<97>>>>
    /\ app.nEvents = 2
    /\ now - app.last_rx_time > STALE_MS
    /\ RxEntries(app.log_store.entries) = <<>>

====
